---- MODULE Spec2Model ----
(***************************************************************************)
(* Ledger and consensus engine of the micro-remittance chain               *)
(* (src/blockchain.py, src/block.py, src/transaction.py, src/config.py).   *)
(*                                                                         *)
(* Modelling conventions                                                   *)
(*  - A Python dict that is iterated (accounts) is a sequence of entries   *)
(*    in insertion order; a dict that is only looked up (remits,           *)
(*    _last_signed) is a function on the set of its keys.                  *)
(*  - SHA-256 is an injective symbolic function: a digest is a sequence of *)
(*    tokens, Sha256(s) brackets s, string concatenation is \o.  A block   *)
(*    hash is the previous hash followed by the block's header, which is   *)
(*    injective in the five hashed header fields.                          *)
(*  - An operation's outcome is one of the strings "True", "False",        *)
(*    "None", "Block" and "raise" (an exception left the method).          *)
(***************************************************************************)
EXTENDS Integers, Sequences, FiniteSets, Bags, TLC

VARIABLES chain, pending, accounts, remits, last_signed, use_pos, enable_reward, last, raised_mines, attempts,
          escrow, network

vars == <<chain, pending, accounts, remits, last_signed, use_pos, enable_reward, last, raised_mines, attempts,
          escrow, network>>

(***************************************************************************)
(* Bounds of the model                                                     *)
(***************************************************************************)
MaxTx == 2          \* transactions admitted by add_tx in one behaviour
MaxChain == 3       \* length of the local chain, genesis included
MaxAmount == 1      \* amounts of submitted transactions are 1..MaxAmount
MaxFee == 1         \* fees of submitted transactions are 0..MaxFee
InitBalance == 2    \* balance the funded address is seeded with
PowPeriod == 2      \* one header in PowPeriod has a hash with the PoW prefix
MaxRaisedMines == 1 \* mine_block calls that end in an exception in one behaviour
MaxThreads == 2     \* request threads that run mine_block at the same time
MaxEscrowTx == 3    \* remittance transactions admitted in one behaviour of SpecEscrow
MaxStake == 3       \* stakes of the stake tables of SpecSelect are 0..MaxStake
MaxSeed == 7        \* seeds handed to _select_pos_validator are 0..MaxSeed
MaxNodes == 3       \* P2P nodes of the network of SpecGossip
MaxRebroadcasts == 2 \* broadcasts of the gossiped transaction one node may make

(***************************************************************************)
(* Program constants                                                       *)
(***************************************************************************)
BLOCK_REWARD == 50000000
REWARD_SENDER == "REWARD"
REWARD_SIGNATURE == "REWARD_SIG"

Addr == {"A", "B"}                 \* addresses that are real public keys
Ids == {"r1"}                      \* remittance ids
Codes == {"c1", "c2"}              \* release codes
Absent == "ABSENT"                 \* a key missing from a payload / a None field
TxTypes == {"PAY", "OPEN_REMIT", "CLAIM_REMIT", "STAKE", "UNSTAKE"}

(***************************************************************************)
(* Hashing                                                                 *)
(***************************************************************************)
NoPayload == [id |-> Absent, recipient |-> Absent, release_hash |-> Absent, release_code |-> Absent]

NullBody == [tx_type |-> Absent, sender |-> Absent, recipient |-> Absent, amount |-> 0, fee |-> 0, nonce |-> 0, payload |-> NoPayload]

LP == [k |-> "(", body |-> NullBody]

RP == [k |-> ")", body |-> NullBody]

\* hashlib.sha256(s).hexdigest() of a string of tokens
Sha256(s) == <<LP>> \o s \o <<RP>>

\* hashlib.sha256(code.encode()).hexdigest() of a release code
Sha256Code(code) == "sha256:" \o code

\* Transaction._body: every field except the signature
TxBody(tx) == [tx_type |-> tx.tx_type, sender |-> tx.sender, recipient |-> tx.recipient, amount |-> tx.amount, fee |-> tx.fee, nonce |-> tx.nonce, payload |-> tx.payload]

\* Transaction.hash
TxHash(tx) == <<[k |-> "tx", body |-> TxBody(tx)]>>

\* the signature sender's key produces; verify() accepts exactly this one
SigOf(addr) == "sig:" \o addr

\* Transaction.verify
verify(tx) == tx.signature # Absent /\ tx.sender \in Addr /\ tx.signature = SigOf(tx.sender)

RECURSIVE MerkleLayers(_)
MerkleLayers(layer) ==
  IF Len(layer) <= 1 THEN layer
  ELSE LET l2 == IF Len(layer) % 2 = 1 THEN Append(layer, layer[Len(layer)]) ELSE layer
       IN MerkleLayers([i \in 1..(Len(l2) \div 2) |-> Sha256(l2[2 * i - 1] \o l2[2 * i])])

merkle_root(tx_hashes) ==
  IF tx_hashes = <<>> THEN Sha256(<<>>) ELSE MerkleLayers(tx_hashes)[1]

TxHashes(txs) == [i \in 1..Len(txs) |-> TxHash(txs[i])]

\* Block.compute_hash: digest of {idx, prev, ts, nonce, mrkl}
compute_hash(blk) ==
  Append(blk.previous_hash,
         [idx |-> blk.index, ts |-> blk.timestamp, nonce |-> blk.nonce,
          mrkl |-> merkle_root(TxHashes(blk.transactions))])

\* the previous_hash "0" of a genesis block
ZeroHash == <<>>

\* hash.startswith("0" * DIFFICULTY)
HasPowPrefix(h) ==
  /\ h # <<>>
  /\ LET hd == h[Len(h)]
     IN (hd.nonce + hd.idx + Len(hd.mrkl) + Len(h)) % PowPeriod = 0

\* a block that does not name its predecessor
Block_Unlinked(index, previous_hash, transactions) ==
  [index |-> index, previous_hash |-> <<>>, timestamp |-> 0,
   transactions |-> transactions, nonce |-> 0, merkle_root |-> <<>>, hash |-> <<>>]

Block(index, previous_hash, transactions) ==
  [index |-> index, previous_hash |-> previous_hash, timestamp |-> 0,
   transactions |-> transactions, nonce |-> 0, merkle_root |-> <<>>, hash |-> <<>>]

(***************************************************************************)
(* Accounts                                                                *)
(***************************************************************************)
ZeroAcct(addr) == [addr |-> addr, balance |-> 0, nonce |-> 0, stake |-> 0]

HasAcct(accts, addr) == \E i \in 1..Len(accts) : accts[i].addr = addr

AcctIdx(accts, addr) == CHOOSE i \in 1..Len(accts) : accts[i].addr = addr

\* Blockchain._get_acct: accounts.setdefault(addr, zero account)
_get_acct(accts, addr) == IF HasAcct(accts, addr) THEN accts ELSE Append(accts, ZeroAcct(addr))

\* the entry of addr, the zero account when there is none
Acct(accts, addr) == IF HasAcct(accts, addr) THEN accts[AcctIdx(accts, addr)] ELSE ZeroAcct(addr)

AddBalance(accts, addr, d) == [accts EXCEPT ![AcctIdx(accts, addr)].balance = @ + d]

AddStake(accts, addr, d) == [accts EXCEPT ![AcctIdx(accts, addr)].stake = @ + d]

SetStake(accts, addr, s) == [accts EXCEPT ![AcctIdx(accts, addr)].stake = s]

AddNonce(accts, addr, d) == [accts EXCEPT ![AcctIdx(accts, addr)].nonce = @ + d]

Remittance(id, sender, recipient, amount, release_hash) ==
  [id |-> id, sender |-> sender, recipient |-> recipient, amount |-> amount,
   release_hash |-> release_hash, released |-> FALSE]

PutRemit(rs, rid, r) == [x \in DOMAIN rs \cup {rid} |-> IF x = rid THEN r ELSE rs[x]]

(***************************************************************************)
(* The node as one value                                                   *)
(***************************************************************************)
Node == [chain |-> chain, pending |-> pending, accounts |-> accounts, remits |-> remits,
         last_signed |-> last_signed, use_pos |-> use_pos, enable_reward |-> enable_reward]

\* Blockchain._is_reward_tx
_is_reward_tx(tx) ==
  tx.tx_type = "PAY" /\ tx.sender = REWARD_SENDER /\ tx.signature = REWARD_SIGNATURE

RECURSIVE SumFees(_, _)
SumFees(txs, i) ==
  IF i > Len(txs) THEN 0
  ELSE (IF _is_reward_tx(txs[i]) THEN 0 ELSE txs[i].fee) + SumFees(txs, i + 1)

\* Blockchain._total_fees
_total_fees(tx_list) == SumFees(tx_list, 1)

(***************************************************************************)
(* Transaction pool                                                        *)
(***************************************************************************)
\* add_tx with a funds check that leaves the fee out
add_tx_FeeIgnored(bc, tx) ==
  LET accts == _get_acct(bc.accounts, tx.sender)
      acct == Acct(accts, tx.sender)
      rejected == [bc |-> [bc EXCEPT !.accounts = accts], ret |-> "False"]
  IN IF tx.tx_type \notin TxTypes THEN rejected
     ELSE IF ~verify(tx) THEN rejected
     ELSE IF tx.nonce # acct.nonce + 1 THEN rejected
     ELSE IF tx.tx_type \in {"PAY", "OPEN_REMIT", "STAKE"} /\ acct.balance < tx.amount
          THEN rejected
     ELSE [bc |-> [bc EXCEPT !.pending = Append(bc.pending, tx),
                             !.accounts = AddNonce(accts, tx.sender, 1)],
           ret |-> "True"]

\* add_tx that leaves the sender's nonce as it was
add_tx_NonceKept(bc, tx) ==
  LET accts == _get_acct(bc.accounts, tx.sender)
      acct == Acct(accts, tx.sender)
      rejected == [bc |-> [bc EXCEPT !.accounts = accts], ret |-> "False"]
  IN IF tx.tx_type \notin TxTypes THEN rejected
     ELSE IF ~verify(tx) THEN rejected
     ELSE IF tx.nonce # acct.nonce + 1 THEN rejected
     ELSE IF tx.tx_type \in {"PAY", "OPEN_REMIT", "STAKE"} /\ acct.balance < tx.amount + tx.fee
          THEN rejected
     ELSE [bc |-> [bc EXCEPT !.pending = Append(bc.pending, tx), !.accounts = accts],
           ret |-> "True"]

\* Blockchain.add_tx: the node after the call and the value returned
add_tx(bc, tx) ==
  LET accts == _get_acct(bc.accounts, tx.sender)
      acct == Acct(accts, tx.sender)
      rejected == [bc |-> [bc EXCEPT !.accounts = accts], ret |-> "False"]
  IN IF tx.tx_type \notin TxTypes THEN rejected
     ELSE IF ~verify(tx) THEN rejected
     ELSE IF tx.nonce # acct.nonce + 1 THEN rejected
     ELSE IF tx.tx_type \in {"PAY", "OPEN_REMIT", "STAKE"} /\ acct.balance < tx.amount + tx.fee
          THEN rejected
     ELSE [bc |-> [bc EXCEPT !.pending = Append(bc.pending, tx),
                             !.accounts = AddNonce(accts, tx.sender, 1)],
           ret |-> "True"]

(***************************************************************************)
(* Block-level state transition                                            *)
(***************************************************************************)
\* _apply_block's loop body with a CLAIM_REMIT that pays a released contract
\* again
ApplyTx_ClaimAgain(st, tx) ==
  LET a1 == _get_acct(st.accounts, tx.sender)
      failed == [accounts |-> a1, remits |-> st.remits, raised |-> TRUE]
  IN CASE tx.tx_type = "PAY" ->
            LET a2 == IF tx.sender # " REWARD_SENDER"
                      THEN AddBalance(a1, tx.sender, -(tx.amount + tx.fee)) ELSE a1
                a3 == _get_acct(a2, tx.recipient)
            IN [st EXCEPT !.accounts = AddBalance(a3, tx.recipient, tx.amount)]
       [] tx.tx_type = "STAKE" ->
            [st EXCEPT !.accounts = SetStake(AddBalance(a1, tx.sender, -tx.amount), tx.sender, tx.amount)]
       [] tx.tx_type = "UNSTAKE" ->
            [st EXCEPT !.accounts = AddBalance(AddStake(a1, tx.sender, -tx.amount), tx.sender, tx.amount)]
       [] tx.tx_type = "OPEN_REMIT" ->
            IF \/ tx.payload.id = Absent
               \/ tx.payload.release_hash = Absent
               \/ tx.payload.recipient = Absent
            THEN failed
            ELSE [st EXCEPT
                    !.remits = PutRemit(st.remits, tx.payload.id,
                                 Remittance(tx.payload.id, tx.sender, tx.payload.recipient,
                                            tx.amount, tx.payload.release_hash)),
                    !.accounts = AddBalance(a1, tx.sender, -(tx.amount + tx.fee))]
       [] tx.tx_type = "CLAIM_REMIT" ->
            IF tx.payload.id = Absent \/ tx.payload.release_code = Absent
            THEN failed
            ELSE LET rid == tx.payload.id
                 IN IF /\ rid \in DOMAIN st.remits
                       /\ Sha256Code(tx.payload.release_code) = st.remits[rid].release_hash
                    THEN LET remit == st.remits[rid]
                             a2 == _get_acct(a1, remit.recipient)
                         IN [st EXCEPT
                               !.accounts = AddBalance(a2, remit.recipient, remit.amount),
                               !.remits = [st.remits EXCEPT ![rid].released = TRUE]]
                    ELSE [st EXCEPT !.accounts = a1]
       [] OTHER -> [st EXCEPT !.accounts = a1]

\* one iteration of the loop of Blockchain._apply_block; raised is set when
\* the iteration ends in an exception (a payload key that is missing)
ApplyTx(st, tx) ==
  LET a1 == _get_acct(st.accounts, tx.sender)
      failed == [accounts |-> a1, remits |-> st.remits, raised |-> TRUE]
  IN CASE tx.tx_type = "PAY" ->
            LET a2 == IF tx.sender # " REWARD_SENDER"
                      THEN AddBalance(a1, tx.sender, -(tx.amount + tx.fee)) ELSE a1
                a3 == _get_acct(a2, tx.recipient)
            IN [st EXCEPT !.accounts = AddBalance(a3, tx.recipient, tx.amount)]
       [] tx.tx_type = "STAKE" ->
            [st EXCEPT !.accounts = SetStake(AddBalance(a1, tx.sender, -tx.amount), tx.sender, tx.amount)]
       [] tx.tx_type = "UNSTAKE" ->
            [st EXCEPT !.accounts = AddBalance(AddStake(a1, tx.sender, -tx.amount), tx.sender, tx.amount)]
       [] tx.tx_type = "OPEN_REMIT" ->
            IF \/ tx.payload.id = Absent
               \/ tx.payload.release_hash = Absent
               \/ tx.payload.recipient = Absent
            THEN failed
            ELSE [st EXCEPT
                    !.remits = PutRemit(st.remits, tx.payload.id,
                                 Remittance(tx.payload.id, tx.sender, tx.payload.recipient,
                                            tx.amount, tx.payload.release_hash)),
                    !.accounts = AddBalance(a1, tx.sender, -(tx.amount + tx.fee))]
       [] tx.tx_type = "CLAIM_REMIT" ->
            IF tx.payload.id = Absent \/ tx.payload.release_code = Absent
            THEN failed
            ELSE LET rid == tx.payload.id
                 IN IF /\ rid \in DOMAIN st.remits
                       /\ ~st.remits[rid].released
                       /\ Sha256Code(tx.payload.release_code) = st.remits[rid].release_hash
                    THEN LET remit == st.remits[rid]
                             a2 == _get_acct(a1, remit.recipient)
                         IN [st EXCEPT
                               !.accounts = AddBalance(a2, remit.recipient, remit.amount),
                               !.remits = [st.remits EXCEPT ![rid].released = TRUE]]
                    ELSE [st EXCEPT !.accounts = a1]
       [] OTHER -> [st EXCEPT !.accounts = a1]

RECURSIVE ApplyTxs(_, _, _)
ApplyTxs(st, txs, i) ==
  IF i > Len(txs) \/ st.raised THEN st ELSE ApplyTxs(ApplyTx(st, txs[i]), txs, i + 1)

\* Blockchain._apply_block on the given accounts and remits
_apply_block(accts, rs, blk) ==
  ApplyTxs([accounts |-> accts, remits |-> rs, raised |-> FALSE], blk.transactions, 1)

(***************************************************************************)
(* Mining                                                                  *)
(***************************************************************************)
\* _mine_pow that hashes once and does not search
_mine_pow_Once(blk) == [blk EXCEPT !.hash = compute_hash(blk)]

\* Blockchain._mine_pow: raise the nonce until the hash has the prefix
RECURSIVE _mine_pow(_)
_mine_pow(blk) ==
  IF HasPowPrefix(compute_hash(blk)) THEN [blk EXCEPT !.hash = compute_hash(blk)]
  ELSE _mine_pow([blk EXCEPT !.nonce = @ + 1])

\* a reward transaction that leaves the fees out
RewardTx_NoFees(miner_addr, fees) ==
  [tx_type |-> "PAY", sender |-> REWARD_SENDER, recipient |-> miner_addr,
   amount |-> BLOCK_REWARD, fee |-> 0, nonce |-> 0, payload |-> NoPayload,
   signature |-> REWARD_SIGNATURE]

\* the reward transaction mine_block builds
RewardTx(miner_addr, fees) ==
  [tx_type |-> "PAY", sender |-> REWARD_SENDER, recipient |-> miner_addr,
   amount |-> BLOCK_REWARD + fees, fee |-> 0, nonce |-> 0, payload |-> NoPayload,
   signature |-> REWARD_SIGNATURE]

\* mine_block with the reward transaction in front of the pending ones
mine_block_RewardFirst(bc, miner_addr) ==
  IF bc.pending = <<>> THEN [bc |-> bc, ret |-> "None"]
  ELSE
    LET fees == _total_fees(bc.pending)
        block_txs == IF bc.enable_reward
                     THEN <<RewardTx(miner_addr, fees)>> \o bc.pending ELSE bc.pending
        tip == bc.chain[Len(bc.chain)]
        blk == [Block(tip.index + 1, tip.hash, block_txs)
                  EXCEPT !.merkle_root = merkle_root(TxHashes(block_txs))]
    IN IF bc.use_pos
       THEN [bc |-> bc, ret |-> "raise"]
       ELSE LET mined == _mine_pow(blk)
                st == _apply_block(bc.accounts, bc.remits, mined)
            IN IF st.raised
               THEN [bc |-> [bc EXCEPT !.accounts = st.accounts, !.remits = st.remits],
                     ret |-> "raise"]
               ELSE [bc |-> [bc EXCEPT !.accounts = st.accounts, !.remits = st.remits,
                                       !.pending = <<>>, !.chain = Append(bc.chain, mined)],
                     ret |-> "Block"]

\* Blockchain.mine_block: the node after the call and the outcome
mine_block(bc, miner_addr) ==
  IF bc.pending = <<>> THEN [bc |-> bc, ret |-> "None"]
  ELSE
    LET fees == _total_fees(bc.pending)
        block_txs == IF bc.enable_reward
                     THEN Append(bc.pending, RewardTx(miner_addr, fees)) ELSE bc.pending
        tip == bc.chain[Len(bc.chain)]
        blk == [Block(tip.index + 1, tip.hash, block_txs)
                  EXCEPT !.merkle_root = merkle_root(TxHashes(block_txs))]
    IN IF bc.use_pos
       THEN \* line 271 calls _select_pos_validator() without its seed_hex
            \* argument: TypeError, before anything is changed
            [bc |-> bc, ret |-> "raise"]
       ELSE LET mined == _mine_pow(blk)
                st == _apply_block(bc.accounts, bc.remits, mined)
            IN IF st.raised
               THEN [bc |-> [bc EXCEPT !.accounts = st.accounts, !.remits = st.remits],
                     ret |-> "raise"]
               ELSE [bc |-> [bc EXCEPT !.accounts = st.accounts, !.remits = st.remits,
                                       !.pending = <<>>, !.chain = Append(bc.chain, mined)],
                     ret |-> "Block"]

(***************************************************************************)
(* Validator selection                                                     *)
(***************************************************************************)
\* int(sha256(f"{prev_hash}{merkle}").hexdigest(), 16): a fixed function of
\* the two digests
SeedInt(prev_hash, merkle) ==
  7 * Len(prev_hash) + 3 * Len(merkle)
  + (IF prev_hash = <<>> THEN 0 ELSE prev_hash[Len(prev_hash)].nonce)

RECURSIVE StakeEntries(_, _)
StakeEntries(accts, i) ==
  IF i > Len(accts) THEN <<>>
  ELSE (IF accts[i].stake > 0 THEN <<accts[i]>> ELSE <<>>) \o StakeEntries(accts, i + 1)

RECURSIVE TotalStake(_, _)
TotalStake(entries, i) ==
  IF i > Len(entries) THEN 0 ELSE entries[i].stake + TotalStake(entries, i + 1)

RECURSIVE WalkStake(_, _, _, _)
WalkStake(entries, i, upto, r) ==
  IF i > Len(entries) THEN entries[Len(entries)].addr
  ELSE IF upto + entries[i].stake >= r THEN entries[i].addr
  ELSE WalkStake(entries, i + 1, upto + entries[i].stake, r)

\* Blockchain._select_pos_validator(seed_hex, accounts): an empty accounts
\* argument is falsy, so "accounts or self.accounts" reads the live table
_select_pos_validator(bc, seed, accts) ==
  LET table == IF accts = <<>> THEN bc.accounts ELSE accts
      stake_entries == StakeEntries(table, 1)
      total == TotalStake(stake_entries, 1)
  IN IF total = 0 THEN REWARD_SENDER
     ELSE WalkStake(stake_entries, 1, 0, seed % total)

\* the transactions mine_block puts in its block (241-256)
BlockTxsOf(bc, miner_addr) ==
  IF bc.enable_reward
  THEN Append(bc.pending, RewardTx(miner_addr, _total_fees(bc.pending))) ELSE bc.pending

\* the seed of a mining round (266): sha256 of the tip's hash followed by the
\* Merkle root of the block being assembled
MineSeed(bc, miner_addr) ==
  SeedInt(bc.chain[Len(bc.chain)].hash, merkle_root(TxHashes(BlockTxsOf(bc, miner_addr))))

\* the validator of a mining round: _select_pos_validator on the round's seed
\* and the live stake table
SelectedValidator(bc, miner_addr) ==
  _select_pos_validator(bc, MineSeed(bc, miner_addr), bc.accounts)

(***************************************************************************)
(* Validation                                                              *)
(***************************************************************************)
\* Blockchain._validate_payload
_validate_payload(tx) ==
  CASE tx.tx_type = "PAY" -> tx.recipient # Absent
    [] tx.tx_type = "OPEN_REMIT" ->
         /\ tx.payload.id # Absent
         /\ tx.payload.recipient # Absent
         /\ tx.payload.release_hash # Absent
    [] tx.tx_type = "CLAIM_REMIT" ->
         tx.payload.id # Absent /\ tx.payload.release_code # Absent
    [] OTHER -> TRUE

\* Blockchain._validate_amount
_validate_amount(tx) ==
  IF tx.tx_type \in {"PAY", "OPEN_REMIT", "STAKE", "UNSTAKE"} THEN tx.amount > 0
  ELSE tx.amount <= 0

\* the checks of one transaction that make validation return False
\* (_validate_chain 509-557, the same lines as validate_block 394-441)
TxRejected(st, tx) ==
  LET sender == Acct(st.accounts, tx.sender)
  IN \/ /\ ~_is_reward_tx(tx)
        /\ \/ ~_validate_payload(tx)
           \/ ~_validate_amount(tx)
           \/ ~verify(tx)
           \/ tx.nonce # sender.nonce + 1
     \/ /\ tx.tx_type = "PAY"
        /\ tx.sender # REWARD_SENDER
        /\ sender.balance < tx.amount + tx.fee
     \/ tx.tx_type = "STAKE" /\ sender.balance < tx.amount
     \/ tx.tx_type = "UNSTAKE" /\ sender.stake < tx.amount
     \/ /\ tx.tx_type = "OPEN_REMIT"
        /\ \/ tx.payload.id \in DOMAIN st.remits
           \/ sender.balance < tx.amount + tx.fee

\* the effect of a CLAIM_REMIT in _validate_chain (559-570)
ClaimEffect(st, a1, tx) ==
  LET rid == tx.payload.id
  IN IF /\ rid \in DOMAIN st.remits
        /\ ~st.remits[rid].released
        /\ Sha256Code(tx.payload.release_code) = st.remits[rid].release_hash
     THEN LET remit == st.remits[rid]
              a2 == _get_acct(a1, remit.recipient)
          IN [st EXCEPT !.accounts = AddBalance(a2, remit.recipient, remit.amount),
                        !.remits = [st.remits EXCEPT ![rid].released = TRUE]]
     ELSE [st EXCEPT !.accounts = a1]

\* the per-type effects of one transaction on the scratch state of
\* _validate_chain (517-570)
TxEffect(st, tx) ==
  LET a0 == _get_acct(st.accounts, tx.sender)
      a1 == IF _is_reward_tx(tx) THEN a0 ELSE AddNonce(a0, tx.sender, 1)
  IN CASE tx.tx_type = "PAY" ->
            LET a2 == IF tx.sender # REWARD_SENDER
                      THEN AddBalance(a1, tx.sender, -(tx.amount + tx.fee)) ELSE a1
                a3 == _get_acct(a2, tx.recipient)
            IN [st EXCEPT !.accounts = AddBalance(a3, tx.recipient, tx.amount)]
       [] tx.tx_type = "STAKE" ->
            [st EXCEPT !.accounts = AddStake(AddBalance(a1, tx.sender, -tx.amount), tx.sender, tx.amount)]
       [] tx.tx_type = "UNSTAKE" ->
            [st EXCEPT !.accounts = AddBalance(AddStake(a1, tx.sender, -tx.amount), tx.sender, tx.amount)]
       [] tx.tx_type = "OPEN_REMIT" ->
            [st EXCEPT
               !.remits = PutRemit(st.remits, tx.payload.id,
                            Remittance(tx.payload.id, tx.sender, tx.payload.recipient,
                                       tx.amount, tx.payload.release_hash)),
               !.accounts = AddBalance(a1, tx.sender, -(tx.amount + tx.fee))]
       [] tx.tx_type = "CLAIM_REMIT" -> ClaimEffect(st, a1, tx)
       [] OTHER -> [st EXCEPT !.accounts = a1]

\* one iteration of the transaction loop of _validate_chain (508-570)
ChainTx(st, tx) ==
  IF TxRejected(st, tx) THEN [st EXCEPT !.verdict = "False"] ELSE TxEffect(st, tx)

\* one iteration of the transaction loop of validate_block (393-457): its
\* CLAIM_REMIT branch tests "not remit and not remit.released", which reads
\* remit.released of None when the id is unknown (AttributeError) and skips
\* the claim when the contract exists
BlockTx(st, tx) ==
  IF TxRejected(st, tx) THEN [st EXCEPT !.verdict = "False"]
  ELSE IF tx.tx_type = "CLAIM_REMIT"
       THEN IF tx.payload.id \notin DOMAIN st.remits
            THEN [st EXCEPT !.verdict = "raise"]
            ELSE [st EXCEPT !.accounts = AddNonce(_get_acct(st.accounts, tx.sender), tx.sender, 1)]
       ELSE TxEffect(st, tx)

RECURSIVE ChainTxs(_, _, _)
ChainTxs(st, txs, i) ==
  IF i > Len(txs) \/ st.verdict # "ok" THEN st ELSE ChainTxs(ChainTx(st, txs[i]), txs, i + 1)

RECURSIVE BlockTxs(_, _, _)
BlockTxs(st, txs, i) ==
  IF i > Len(txs) \/ st.verdict # "ok" THEN st ELSE BlockTxs(BlockTx(st, txs[i]), txs, i + 1)

RECURSIVE RewardTxs(_, _)
RewardTxs(txs, i) ==
  IF i > Len(txs) THEN <<>>
  ELSE (IF _is_reward_tx(txs[i]) THEN <<txs[i]>> ELSE <<>>) \o RewardTxs(txs, i + 1)

\* Blockchain.validate_block
validate_block(bc, blk, prev_blk) ==
  LET computed_merkle == merkle_root(TxHashes(blk.transactions))
      reward_txs == RewardTxs(blk.transactions, 1)
      fees == _total_fees(blk.transactions)
      seed == SeedInt(prev_blk.hash, computed_merkle)
      st == BlockTxs([accounts |-> bc.accounts, remits |-> bc.remits, verdict |-> "ok"],
                     blk.transactions, 1)
  IN IF blk.previous_hash # prev_blk.hash THEN "False"
     ELSE IF blk.index # prev_blk.index + 1 THEN "False"
     ELSE IF ~bc.use_pos /\ ~HasPowPrefix(blk.hash) THEN "False"
     ELSE IF blk.merkle_root # <<>> /\ blk.merkle_root # computed_merkle THEN "False"
     ELSE IF blk.hash # compute_hash(blk) THEN "False"
     ELSE IF Len(reward_txs) > 1 THEN "False"
     ELSE IF bc.enable_reward /\ reward_txs # <<>> /\ reward_txs[1].amount # BLOCK_REWARD + fees
          THEN "False"
     ELSE IF /\ bc.use_pos
             /\ reward_txs # <<>>
             /\ reward_txs[1].recipient # _select_pos_validator(bc, seed, bc.accounts)
          THEN "False"
     ELSE IF st.verdict = "ok" THEN "True" ELSE st.verdict

\* the body of the block loop of _validate_chain past line 485, as it would
\* run if merkle_root were bound there (486-570)
ChainBlockBody(bc, st, prev, blk) ==
  LET computed_merkle == merkle_root(TxHashes(blk.transactions))
      reward_txs == RewardTxs(blk.transactions, 1)
      fees == _total_fees(blk.transactions)
      mrkl == IF blk.merkle_root # <<>> THEN blk.merkle_root ELSE computed_merkle
      seed == SeedInt(prev.hash, mrkl)
      failed == [st EXCEPT !.verdict = "False"]
  IN IF blk.merkle_root # <<>> /\ blk.merkle_root # computed_merkle THEN failed
     ELSE IF blk.hash # compute_hash(blk) THEN failed
     ELSE IF Len(reward_txs) > 1 THEN failed
     ELSE IF bc.enable_reward /\ reward_txs = <<>> THEN failed
     ELSE IF bc.enable_reward /\ reward_txs[1].amount # BLOCK_REWARD + fees THEN failed
     ELSE IF /\ bc.use_pos
             /\ reward_txs # <<>>
             /\ reward_txs[1].recipient # _select_pos_validator(bc, seed, st.accounts)
          THEN failed
     ELSE ChainTxs(st, blk.transactions, 1)

\* the same loop body with the linkage and proof-of-work checks in front and
\* no failure at line 485
ChainBlockBound(bc, st, prev, blk) ==
  IF blk.previous_hash # prev.hash THEN [st EXCEPT !.verdict = "False"]
  ELSE IF ~bc.use_pos /\ ~HasPowPrefix(blk.hash) THEN [st EXCEPT !.verdict = "False"]
  ELSE ChainBlockBody(bc, st, prev, blk)

\* one iteration of the block loop of _validate_chain (479-570).  The
\* assignment "merkle_root = ..." at line 502 makes merkle_root a local
\* variable of the whole method, so the call merkle_root(...) at line 485
\* reads an unbound local: UnboundLocalError in the first iteration that
\* passes the linkage and proof-of-work checks.
ChainBlock(bc, st, prev, blk) ==
  IF blk.previous_hash # prev.hash THEN [st EXCEPT !.verdict = "False"]
  ELSE IF ~bc.use_pos /\ ~HasPowPrefix(blk.hash) THEN [st EXCEPT !.verdict = "False"]
  ELSE [st EXCEPT !.verdict = "raise"]

RECURSIVE ChainBlocks(_, _, _, _)
ChainBlocks(bc, st, ch, i) ==
  IF i > Len(ch) \/ st.verdict # "ok" THEN st
  ELSE ChainBlocks(bc, ChainBlock(bc, st, ch[i - 1], ch[i]), ch, i + 1)

EmptyAccounts == <<>>

\* Blockchain._validate_chain: the scratch state it ends with and the verdict
ValidateChainState(bc, ch) ==
  LET st0 == [accounts |-> EmptyAccounts, remits |-> [x \in {} |-> 0], verdict |-> "ok"]
      failed == [st0 EXCEPT !.verdict = "False"]
  IN IF ch = <<>> THEN failed
     ELSE IF ch[1].index # 0 \/ ch[1].previous_hash # ZeroHash THEN failed
     ELSE IF ch[1].hash # compute_hash(ch[1]) THEN failed
     ELSE ChainBlocks(bc, st0, ch, 2)

\* Blockchain._validate_chain: "True", "False" or "raise"
_validate_chain(bc, ch) ==
  LET v == ValidateChainState(bc, ch).verdict IN IF v = "ok" THEN "True" ELSE v

\* Blockchain.is_valid_chain
is_valid_chain(bc) == _validate_chain(bc, bc.chain)

\* replace_chain without the call of _validate_chain
replace_chain_Unvalidated(bc, new_chain) ==
  IF Len(new_chain) <= Len(bc.chain) THEN [bc |-> bc, ret |-> "False"]
  ELSE LET st == _apply_block(EmptyAccounts, [x \in {} |-> 0], new_chain[1])
           rebuilt == [bc EXCEPT !.chain = new_chain, !.accounts = st.accounts,
                                 !.remits = st.remits, !.pending = <<>>,
                                 !.last_signed = [x \in {} |-> 0]]
       IN [bc |-> rebuilt, ret |-> IF st.raised THEN "raise" ELSE "True"]

\* Blockchain.replace_chain: the node after the call and the outcome
replace_chain(bc, new_chain) ==
  IF Len(new_chain) <= Len(bc.chain) THEN [bc |-> bc, ret |-> "False"]
  ELSE LET v == _validate_chain(bc, new_chain)
       IN IF v # "True" THEN [bc |-> bc, ret |-> v]
          ELSE LET st == _apply_block(EmptyAccounts, [x \in {} |-> 0], new_chain[1])
                   rebuilt == [bc EXCEPT !.chain = new_chain, !.accounts = st.accounts,
                                         !.remits = st.remits, !.pending = <<>>,
                                         !.last_signed = [x \in {} |-> 0]]
               IN [bc |-> rebuilt, ret |-> IF st.raised THEN "raise" ELSE "True"]

(***************************************************************************)
(* Genesis and construction                                                *)
(***************************************************************************)
\* Blockchain.create_genesis_block
GenesisBlock == [Block(0, ZeroHash, <<>>) EXCEPT !.hash = compute_hash(Block(0, ZeroHash, <<>>))]

\* the ledger right after construction and seeding: the tests and the P2P
\* node fund one address directly (accounts[pub] = {balance, 0, 0})
InitAccounts == <<[addr |-> "A", balance |-> InitBalance, nonce |-> 0, stake |-> 0]>>

NoRemits == [x \in {} |-> 0]

(***************************************************************************)
(* Inputs                                                                  *)
(***************************************************************************)
Amounts == 1..MaxAmount

Fees == 0..MaxFee

Nonces == 0..MaxTx

Sigs == {SigOf(a) : a \in Addr} \cup {Absent}

Tx(tx_type, sender, recipient, amount, fee, nonce, payload, signature) ==
  [tx_type |-> tx_type, sender |-> sender, recipient |-> recipient, amount |-> amount,
   fee |-> fee, nonce |-> nonce, payload |-> payload, signature |-> signature]

\* a well-formed OPEN_REMIT payload names the other party and commits to "c1"
OpenPayloads(s) ==
  {[id |-> i, recipient |-> r, release_hash |-> Sha256Code("c1"), release_code |-> Absent] :
     i \in Ids, r \in Addr \ {s}} \cup {NoPayload}

ClaimPayloads ==
  {[id |-> i, recipient |-> Absent, release_hash |-> Absent, release_code |-> c] :
     i \in Ids, c \in Codes}

\* the transactions a client may submit.  The fee of an UNSTAKE or a
\* CLAIM_REMIT is 0: add_tx reads the fee of PAY, OPEN_REMIT and STAKE only.
TxInputs ==
  {Tx("PAY", s, r, a, f, n, NoPayload, g) :
     s \in Addr, r \in Addr, a \in Amounts, f \in Fees, n \in Nonces, g \in Sigs}
  \cup {Tx(t, s, Absent, a, f, n, NoPayload, g) :
     t \in {"STAKE", "BOGUS"}, s \in Addr, a \in Amounts, f \in Fees, n \in Nonces, g \in Sigs}
  \cup {Tx("UNSTAKE", s, Absent, a, 0, n, NoPayload, g) :
     s \in Addr, a \in Amounts, n \in Nonces, g \in Sigs}
  \cup UNION {{Tx("OPEN_REMIT", s, Absent, a, f, n, p, g) :
     a \in Amounts, f \in Fees, n \in Nonces, p \in OpenPayloads(s), g \in Sigs} : s \in Addr}
  \cup {Tx("CLAIM_REMIT", s, Absent, 0, 0, n, p, g) :
     s \in Addr, n \in Nonces, p \in ClaimPayloads, g \in Sigs}

\* transactions a peer may put in a block it sends: one of each type by
\* "A" with the nonce the local ledger expects next, and one that is unsigned
CandTxs(bc) ==
  LET n == Acct(bc.accounts, "A").nonce + 1
      open == [id |-> "r1", recipient |-> "B", release_hash |-> Sha256Code("c1"), release_code |-> Absent]
      claim == [id |-> "r1", recipient |-> Absent, release_hash |-> Absent, release_code |-> "c1"]
  IN {Tx("PAY", "A", "B", 1, 0, n, NoPayload, SigOf("A")),
      Tx("PAY", "A", "B", 1, 0, n, NoPayload, Absent),
      Tx("STAKE", "A", Absent, 1, 0, n, NoPayload, SigOf("A")),
      Tx("UNSTAKE", "A", Absent, 1, 0, n, NoPayload, SigOf("A")),
      Tx("BOGUS", "A", Absent, 1, 0, n, NoPayload, SigOf("A")),
      Tx("OPEN_REMIT", "A", Absent, 1, 0, n, open, SigOf("A")),
      Tx("CLAIM_REMIT", "A", Absent, 0, 0, n, claim, SigOf("A"))}

RewardRecipients == Addr \cup {REWARD_SENDER}

\* transaction lists of candidate blocks: empty, one transaction, a claim
\* and a reward, a reward alone, a reward of a wrong amount, two rewards
CandTxLists(bc) ==
  {<<>>}
  \cup {<<t>> : t \in CandTxs(bc)}
  \cup {<<t, RewardTx(m, 0)>> : t \in {u \in CandTxs(bc) : u.tx_type = "CLAIM_REMIT"}, m \in RewardRecipients}
  \cup {<<RewardTx(m, 0)>> : m \in RewardRecipients}
  \cup {<<RewardTx("A", 1)>>, <<RewardTx("A", 0), RewardTx("A", 0)>>}

\* the block a peer running mine_block's assembly builds on prev
\* (258-265 and 288 or 293)
PeerBlock(bc, prev, txs) ==
  LET blk == [Block(prev.index + 1, prev.hash, txs) EXCEPT !.merkle_root = merkle_root(TxHashes(txs))]
  IN IF bc.use_pos THEN [blk EXCEPT !.hash = compute_hash(blk)] ELSE _mine_pow(blk)

Remine(bc, blk) ==
  IF bc.use_pos THEN [blk EXCEPT !.hash = compute_hash(blk)] ELSE _mine_pow([blk EXCEPT !.nonce = 0])

\* malformed blocks on prev, one per check of validation
BadBlocks(bc, prev) ==
  LET good == PeerBlock(bc, prev, <<>>)
      one == PeerBlock(bc, prev, <<RewardTx("A", 0)>>)
      next == [good EXCEPT !.nonce = @ + 1]
      far == [good EXCEPT !.nonce = @ + PowPeriod]
  IN {Remine(bc, [good EXCEPT !.previous_hash = Append(prev.hash, prev.hash[1])]),
      [next EXCEPT !.hash = compute_hash(next)],
      [good EXCEPT !.hash = compute_hash(far)],
      Remine(bc, [good EXCEPT !.index = prev.index + 2]),
      [one EXCEPT !.merkle_root = Sha256(<<>>)],
      [one EXCEPT !.merkle_root = <<>>]}

\* blocks a peer may send as successor of prev
CandBlocks(bc, prev) == {PeerBlock(bc, prev, txs) : txs \in CandTxLists(bc)} \cup BadBlocks(bc, prev)

\* genesis blocks of foreign chains, one per genesis check (473-477)
BadGenesis ==
  {[GenesisBlock EXCEPT !.index = 1],
   [GenesisBlock EXCEPT !.previous_hash = GenesisBlock.hash],
   [GenesisBlock EXCEPT !.hash = ZeroHash]}

\* candidate chains handed to replace_chain: the empty chain, the prefixes
\* of the local chain, the local chain extended by one block of a peer, its
\* genesis followed by a malformed block, and chains on a malformed genesis
Candidates(bc) ==
  {SubSeq(bc.chain, 1, k) : k \in 0..Len(bc.chain)}
  \cup {Append(bc.chain, b) : b \in CandBlocks(bc, bc.chain[Len(bc.chain)])}
  \cup {<<bc.chain[1], b>> : b \in BadBlocks(bc, bc.chain[1])}
  \cup UNION {{<<g>>, <<g, PeerBlock(bc, g, <<>>)>>} : g \in BadGenesis}

RECURSIVE CountAdmitted(_, _)
CountAdmitted(ch, i) ==
  IF i > Len(ch) THEN 0
  ELSE Cardinality({j \in 1..Len(ch[i].transactions) : ~_is_reward_tx(ch[i].transactions[j])})
       + CountAdmitted(ch, i + 1)

\* transactions admitted so far: those mined and those pending
Admitted == CountAdmitted(chain, 1) + Len(pending)

(***************************************************************************)
(* The node as a state machine                                             *)
(***************************************************************************)
\* the P2P nodes of a network
Nodes == 1..MaxNodes

\* network is the state of a network of P2P nodes: the Blockchain of every
\* node, the peers list of every node, the "tx" messages in flight (a bag of
\* destination and JSON payload), how often every node has broadcast the
\* transaction, and whether the client has submitted it.  It is idle in the
\* specifications of a single node.
NoNetwork ==
  [nodes |-> <<>>, peers |-> <<>>, inflight |-> EmptyBag, rebroadcasts |-> <<>>, submitted |-> FALSE]

\* escrow records, for every remittance id, what the calls of _apply_block
\* on the node's ledger have debited from openers (the amount without the
\* fee) and credited to recipients so far
NoEscrow == [i \in Ids |-> [debited |-> 0, credited |-> 0]]

\* the ledger _apply_block works on
Ledger == [accounts |-> accounts, remits |-> remits, raised |-> FALSE]

\* the escrow record after one iteration of _apply_block's loop: the debit
\* of an OPEN_REMIT (338) and the credit of a CLAIM_REMIT (350), read off the
\* balances before and after the iteration
EscrowOfTx(esc, st, tx) ==
  LET nx == ApplyTx(st, tx)
      bal(s, x) == Acct(s.accounts, x).balance
      fee == bal(ApplyTx(st, [tx EXCEPT !.fee = 0]), tx.sender) - bal(nx, tx.sender)
  IN IF nx.raised \/ tx.tx_type \notin {"OPEN_REMIT", "CLAIM_REMIT"} \/ tx.payload.id \notin Ids
     THEN esc
     ELSE IF tx.tx_type = "OPEN_REMIT"
     THEN [esc EXCEPT ![tx.payload.id].debited = @ + bal(st, tx.sender) - bal(nx, tx.sender) - fee]
     ELSE IF tx.payload.id \in DOMAIN st.remits
     THEN LET to == st.remits[tx.payload.id].recipient
          IN [esc EXCEPT ![tx.payload.id].credited = @ + bal(nx, to) - bal(st, to)]
     ELSE esc

\* the escrow record after _apply_block has applied txs from the i-th on
RECURSIVE EscrowAfter(_, _, _, _)
EscrowAfter(esc, st, txs, i) ==
  IF i > Len(txs) \/ st.raised THEN esc
  ELSE EscrowAfter(EscrowOfTx(esc, st, txs[i]), ApplyTx(st, txs[i]), txs, i + 1)

Install(bc) ==
  /\ chain' = bc.chain
  /\ pending' = bc.pending
  /\ accounts' = bc.accounts
  /\ remits' = bc.remits
  /\ last_signed' = bc.last_signed
  /\ use_pos' = bc.use_pos
  /\ enable_reward' = bc.enable_reward

\* the request threads of the API server: a synchronous endpoint runs in a
\* worker thread, so two calls of mine_block can be in progress at once
Threads == 1..MaxThreads

\* addresses a client may name as miner
Miners == Addr \cup {REWARD_SENDER}

\* a thread that is not in mine_block
IdleAttempt ==
  [pc |-> "idle", miner |-> Absent, height |-> 0, selected |-> FALSE,
   slashed |-> FALSE, ret |-> "None", during |-> {}, blk |-> GenesisBlock]

Init ==
  /\ chain = <<GenesisBlock>>
  /\ pending = <<>>
  /\ accounts = InitAccounts
  /\ remits = NoRemits
  /\ last_signed = NoRemits
  /\ use_pos \in BOOLEAN
  /\ enable_reward \in BOOLEAN
  /\ last = [op |-> "init", ret |-> "None"]
  /\ raised_mines = 0
  /\ attempts = [t \in Threads |-> IdleAttempt]
  /\ escrow = NoEscrow
  /\ network = NoNetwork

AddTx ==
  /\ Admitted < MaxTx
  /\ \E tx \in TxInputs :
       LET r == add_tx(Node, tx)
       IN /\ Install(r.bc)
          /\ last' = [op |-> "add_tx", ret |-> r.ret]
          /\ UNCHANGED <<raised_mines, attempts, escrow, network>>

MineBlock ==
  /\ Len(chain) < MaxChain
  /\ \E miner_addr \in Addr :
       LET r == mine_block(Node, miner_addr)
       IN /\ r.ret = "raise" => raised_mines < MaxRaisedMines
          /\ Install(r.bc)
          /\ last' = [op |-> "mine_block", ret |-> r.ret]
          /\ raised_mines' = IF r.ret = "raise" THEN raised_mines + 1 ELSE raised_mines
          /\ escrow' = IF pending = <<>> \/ use_pos THEN escrow
                        ELSE EscrowAfter(escrow, Ledger, BlockTxsOf(Node, miner_addr), 1)
          /\ UNCHANGED <<attempts, network>>

ReplaceChain ==
  \E new_chain \in Candidates(Node) :
    LET r == replace_chain(Node, new_chain)
    IN /\ Install(r.bc)
       /\ last' = [op |-> "replace_chain", ret |-> r.ret]
       /\ UNCHANGED <<raised_mines, attempts, escrow, network>>

IsValidChain ==
  /\ last' = [op |-> "is_valid_chain", ret |-> is_valid_chain(Node)]
  /\ UNCHANGED <<chain, pending, accounts, remits, last_signed, use_pos, enable_reward, raised_mines, attempts, escrow, network>>

ValidateBlock ==
  \E blk \in CandBlocks(Node, chain[Len(chain)]) :
    /\ last' = [op |-> "validate_block", ret |-> validate_block(Node, blk, chain[Len(chain)])]
    /\ UNCHANGED <<chain, pending, accounts, remits, last_signed, use_pos, enable_reward, raised_mines, attempts, escrow, network>>

Next == AddTx \/ MineBlock \/ ReplaceChain \/ IsValidChain \/ ValidateBlock

Spec == Init /\ [][Next]_vars

(***************************************************************************)
(* mine_block in PoS mode, statement by statement, in concurrent threads.  *)
(* No statement of mine_block takes a lock, and neither does the endpoint  *)
(* that calls it.                                                          *)
(***************************************************************************)
InProgress == {t \in Threads : attempts[t].pc \notin {"idle", "done"}}

\* POST /mine: the endpoint calls chain.mine_block(miner_addr=miner)
MineEnter(t) ==
  /\ attempts[t].pc = "idle"
  /\ \E m \in Miners :
       attempts' = [attempts EXCEPT ![t] = [IdleAttempt EXCEPT !.pc = "l236", !.miner = m,
                                                                !.during = InProgress]]
  /\ UNCHANGED <<chain, pending, accounts, remits, last_signed, use_pos, enable_reward, last, raised_mines, escrow, network>>

\* lines 236-238: nothing pending, return None
MinePending(t) ==
  /\ attempts[t].pc = "l236"
  /\ attempts' = [attempts EXCEPT ![t].pc = IF pending = <<>> THEN "done" ELSE "l241"]
  /\ UNCHANGED <<chain, pending, accounts, remits, last_signed, use_pos, enable_reward, last, raised_mines, escrow, network>>

\* lines 241-266: the block is assembled on the tip and the seed computed;
\* selected tells whether the caller is the validator of this round
MineAssemble(t) ==
  /\ attempts[t].pc = "l241"
  /\ attempts' = [attempts EXCEPT ![t].pc = "l270",
                                  ![t].height = chain[Len(chain)].index + 1,
                                  ![t].blk = [Block(chain[Len(chain)].index + 1, chain[Len(chain)].hash,
                                                    BlockTxsOf(Node, attempts[t].miner))
                                                EXCEPT !.merkle_root =
                                                  merkle_root(TxHashes(BlockTxsOf(Node, attempts[t].miner)))],
                                  ![t].selected = (attempts[t].miner = SelectedValidator(Node, attempts[t].miner))]
  /\ UNCHANGED <<chain, pending, accounts, remits, last_signed, use_pos, enable_reward, last, raised_mines, escrow, network>>

\* lines 270-271 in PoS mode: _select_pos_validator() is called without its
\* seed_hex argument, TypeError leaves mine_block.  The check of
\* _last_signed (279-280), the slash (281-284) and the recording of the
\* height (285) are never reached.
MineConsensus(t) ==
  /\ attempts[t].pc = "l270"
  /\ use_pos
  /\ attempts' = [attempts EXCEPT ![t].pc = "done", ![t].ret = "raise"]
  /\ UNCHANGED <<chain, pending, accounts, remits, last_signed, use_pos, enable_reward, last, raised_mines, escrow, network>>

\* transactions are admitted while no mining attempt is in progress
AdmitTx == (\A t \in Threads : attempts[t].pc = "idle") /\ AddTx

NextPosThreads ==
  \/ AdmitTx
  \/ \E t \in Threads : MineEnter(t) \/ MinePending(t) \/ MineAssemble(t) \/ MineConsensus(t)

\* a PoS node serving concurrent mining requests
InitPos == Init /\ use_pos

SpecPosThreads == InitPos /\ [][NextPosThreads]_vars

(***************************************************************************)
(* mine_block in PoW mode, statement by statement, while add_tx runs in    *)
(* other request threads.  One mining attempt is in progress at a time.    *)
(***************************************************************************)
PowEnter(t) ==
  /\ ~use_pos
  /\ InProgress = {}
  /\ Len(chain) < MaxChain
  /\ MineEnter(t)

\* lines 270 and 293: the PoW branch, _mine_pow(blk)
PowSearch(t) ==
  /\ attempts[t].pc = "l270"
  /\ ~use_pos
  /\ attempts' = [attempts EXCEPT ![t].pc = "l296", ![t].blk = _mine_pow(attempts[t].blk)]
  /\ UNCHANGED <<chain, pending, accounts, remits, last_signed, use_pos, enable_reward, last, raised_mines, escrow, network>>

\* line 296: _apply_block(blk) on the live ledger; an exception leaves
\* mine_block with the effects applied so far
PowApply(t) ==
  /\ attempts[t].pc = "l296"
  /\ LET st == _apply_block(accounts, remits, attempts[t].blk)
     IN /\ st.raised => raised_mines < MaxRaisedMines
        /\ accounts' = st.accounts
        /\ remits' = st.remits
        /\ raised_mines' = IF st.raised THEN raised_mines + 1 ELSE raised_mines
        /\ attempts' = [attempts EXCEPT ![t].pc = IF st.raised THEN "done" ELSE "l297",
                                        ![t].ret = IF st.raised THEN "raise" ELSE "None"]
        /\ last' = IF st.raised THEN [op |-> "mine_block", ret |-> "raise"] ELSE last
        /\ escrow' = EscrowAfter(escrow, Ledger, attempts[t].blk.transactions, 1)
  /\ UNCHANGED <<chain, pending, last_signed, use_pos, enable_reward, network>>

\* line 297: self.pending.clear()
PowClear(t) ==
  /\ attempts[t].pc = "l297"
  /\ pending' = <<>>
  /\ attempts' = [attempts EXCEPT ![t].pc = "l298"]
  /\ UNCHANGED <<chain, accounts, remits, last_signed, use_pos, enable_reward, last, raised_mines, escrow, network>>

\* lines 298-299: self.chain.append(blk); return blk
PowAppend(t) ==
  /\ attempts[t].pc = "l298"
  /\ chain' = Append(chain, attempts[t].blk)
  /\ attempts' = [attempts EXCEPT ![t].pc = "done", ![t].ret = "Block"]
  /\ last' = [op |-> "mine_block", ret |-> "Block"]
  /\ UNCHANGED <<pending, accounts, remits, last_signed, use_pos, enable_reward, raised_mines, escrow, network>>

\* POST /tx in another request thread: add_tx of one of the transactions of
\* the funded address that carry its next nonce
AddTxClient ==
  /\ Acct(accounts, "A").nonce < MaxTx
  /\ \E tx \in CandTxs(Node) :
       LET r == add_tx(Node, tx)
       IN /\ Install(r.bc)
          /\ last' = [op |-> "add_tx", ret |-> r.ret]
          /\ UNCHANGED <<raised_mines, attempts, escrow, network>>

NextPowThreads ==
  \/ AddTxClient
  \/ \E t \in Threads :
       \/ PowEnter(t) \/ MinePending(t) \/ MineAssemble(t)
       \/ PowSearch(t) \/ PowApply(t) \/ PowClear(t) \/ PowAppend(t)

InitPow == Init /\ ~use_pos

\* a PoW node that admits transactions while a mining attempt is in progress
SpecPowThreads == InitPow /\ [][NextPowThreads]_vars

(***************************************************************************)
(* The P2P node: the message handler and the mining loop                   *)
(***************************************************************************)
\* P2PNode.handler, kind "block": the node after the message and what the
\* handler did with the block ("Appended", "Rejected" or "raise")
handle_block(bc, blk) ==
  LET v == is_valid_chain(bc)
      tip == bc.chain[Len(bc.chain)]
  IN IF v = "raise" THEN [bc |-> bc, ret |-> "raise"]
     ELSE IF v = "True" /\ blk.index = tip.index + 1
     THEN LET st == _apply_block(bc.accounts, bc.remits, blk)
              applied == [bc EXCEPT !.accounts = st.accounts, !.remits = st.remits]
          IN IF st.raised THEN [bc |-> applied, ret |-> "raise"]
             ELSE [bc |-> [applied EXCEPT !.chain = Append(bc.chain, blk)], ret |-> "Appended"]
     ELSE [bc |-> bc, ret |-> "Rejected"]

\* the blocks a peer that was gossiped the same transactions mines and
\* broadcasts (periodic_mine of the peer)
GossipBlocks(bc) ==
  IF bc.pending = <<>> THEN {}
  ELSE {PeerBlock(bc, bc.chain[Len(bc.chain)], BlockTxsOf(bc, m)) : m \in Addr}

\* a "block" message arrives
ReceiveBlock ==
  /\ Len(chain) < MaxChain
  /\ \E blk \in CandBlocks(Node, chain[Len(chain)]) \cup GossipBlocks(Node) :
       LET r == handle_block(Node, blk)
           partial == r.ret = "raise" /\ r.bc # Node
       IN /\ partial => raised_mines < MaxRaisedMines
          /\ Install(r.bc)
          /\ last' = [op |-> "handle_block", ret |-> r.ret]
          /\ raised_mines' = IF partial THEN raised_mines + 1 ELSE raised_mines
          /\ escrow' = IF r.ret = "Rejected" \/ r.bc = Node THEN escrow
                        ELSE EscrowAfter(escrow, Ledger, blk.transactions, 1)
          /\ UNCHANGED <<attempts, network>>

\* the handler's "tx" branch is add_tx (AddTxClient) and a round of
\* periodic_mine is mine_block (MineBlock)
NextPeer == AddTxClient \/ ReceiveBlock \/ MineBlock

\* P2PNode.__init__: a PoW node that pays the block reward
InitPeer == Init /\ ~use_pos /\ enable_reward

SpecPeer == InitPeer /\ [][NextPeer]_vars

(***************************************************************************)
(* Validator selection on its own                                          *)
(***************************************************************************)
\* the account tables of a PoS node whose addresses hold stakes 0..MaxStake,
\* in either insertion order of the accounts dict
StakeTables ==
  {<<[addr |-> x, balance |-> InitBalance, nonce |-> 0, stake |-> sx],
     [addr |-> y, balance |-> InitBalance, nonce |-> 0, stake |-> sy]>> :
     x \in Addr, y \in Addr, sx \in 0..MaxStake, sy \in 0..MaxStake}
  \ {t \in [1..2 -> [addr : Addr, balance : {InitBalance}, nonce : {0}, stake : 0..MaxStake]] :
       t[1].addr = t[2].addr}

InitSelect ==
  /\ chain = <<GenesisBlock>>
  /\ pending = <<>>
  /\ accounts \in StakeTables
  /\ remits = NoRemits
  /\ last_signed = NoRemits
  /\ use_pos = TRUE
  /\ enable_reward \in BOOLEAN
  /\ last = [op |-> "init", ret |-> "None"]
  /\ raised_mines = 0
  /\ attempts = [t \in Threads |-> IdleAttempt]
  /\ escrow = NoEscrow
  /\ network = NoNetwork

\* a call of _select_pos_validator with the hexadecimal form of seed
SelectValidator ==
  \E seed \in 0..MaxSeed :
    /\ last' = [op |-> "_select_pos_validator", seed |-> seed,
                ret |-> _select_pos_validator(Node, seed, accounts)]
    /\ UNCHANGED <<chain, pending, accounts, remits, last_signed, use_pos, enable_reward, raised_mines, attempts, escrow, network>>

SpecSelect == InitSelect /\ [][SelectValidator]_vars

(***************************************************************************)
(* Gossip of one transaction in a network of P2P nodes                     *)
(***************************************************************************)
\* Transaction.to_dict
to_dict(tx) ==
  [tx_type |-> tx.tx_type, sender |-> tx.sender, recipient |-> tx.recipient,
   amount |-> tx.amount, fee |-> tx.fee, nonce |-> tx.nonce, payload |-> tx.payload,
   signature |-> tx.signature]

\* Transaction.from_dict
from_dict(data) ==
  Tx(data.tx_type, data.sender, data.recipient, data.amount, data.fee, data.nonce,
     data.payload, data.signature)

\* P2PNode.__init__: a PoW node that pays rewards; funded tells whether the
\* operator has funded the demo wallet on this node
PeerNode(funded) ==
  [chain |-> <<GenesisBlock>>, pending |-> <<>>,
   accounts |-> IF funded THEN InitAccounts ELSE EmptyAccounts,
   remits |-> NoRemits, last_signed |-> NoRemits, use_pos |-> FALSE, enable_reward |-> TRUE]

\* the address a node mines to
NodeWallet == "B"

\* P2PNode.broadcast(kind "tx"): one message to every peer of node n
Broadcast(n, tx) == SetToBag({[to |-> p, payload |-> to_dict(tx)] : p \in network.peers[n]})

\* the peers lists the nodes are started with: everyone (itself included),
\* everyone else, the next node of a ring, and a star around node 1
Topologies ==
  {[n \in Nodes |-> Nodes],
   [n \in Nodes |-> Nodes \ {n}],
   [n \in Nodes |-> {(n % MaxNodes) + 1}],
   [n \in Nodes |-> IF n = 1 THEN Nodes \ {1} ELSE {1}]}

InitGossip ==
  /\ chain = <<GenesisBlock>>
  /\ pending = <<>>
  /\ accounts = InitAccounts
  /\ remits = NoRemits
  /\ last_signed = NoRemits
  /\ use_pos = FALSE
  /\ enable_reward = TRUE
  /\ last = [op |-> "init", ret |-> "None"]
  /\ raised_mines = 0
  /\ attempts = [t \in Threads |-> IdleAttempt]
  /\ escrow = NoEscrow
  /\ \E funded \in SUBSET Nodes, peers \in Topologies :
       network = [nodes |-> [n \in Nodes |-> PeerNode(n \in funded)],
                  peers |-> peers,
                  inflight |-> EmptyBag,
                  rebroadcasts |-> [n \in Nodes |-> 0],
                  submitted |-> FALSE]

\* send_tx.py: the client sends the signed transaction to one node
SubmitTx ==
  /\ ~network.submitted
  /\ \E n \in Nodes, tx \in CandTxs(PeerNode(TRUE)) :
       network' = [network EXCEPT !.submitted = TRUE,
                                  !.inflight = SetToBag({[to |-> n, payload |-> to_dict(tx)]})]
  /\ UNCHANGED <<chain, pending, accounts, remits, last_signed, use_pos, enable_reward, last,
                 raised_mines, attempts, escrow>>

\* P2PNode.handler, kind "tx": add_tx, and a broadcast when it was admitted
HandleTx ==
  /\ \E m \in BagToSet(network.inflight) :
       LET n == m.to
           tx == from_dict(m.payload)
           r == add_tx(network.nodes[n], tx)
           rest == network.inflight (-) SetToBag({m})
       IN /\ r.ret = "True" => network.rebroadcasts[n] < MaxRebroadcasts
          /\ network' = [network EXCEPT
                           !.nodes[n] = r.bc,
                           !.inflight = IF r.ret = "True" THEN rest (+) Broadcast(n, tx) ELSE rest,
                           !.rebroadcasts[n] = IF r.ret = "True" THEN @ + 1 ELSE @]
  /\ UNCHANGED <<chain, pending, accounts, remits, last_signed, use_pos, enable_reward, last,
                 raised_mines, attempts, escrow>>

\* one round of periodic_mine on node n
MineAt(n) ==
  /\ network.nodes[n].pending # <<>>
  /\ Len(network.nodes[n].chain) < MaxChain
  /\ network' = [network EXCEPT !.nodes[n] = mine_block(network.nodes[n], NodeWallet).bc]
  /\ UNCHANGED <<chain, pending, accounts, remits, last_signed, use_pos, enable_reward, last,
                 raised_mines, attempts, escrow>>

NextGossip == SubmitTx \/ HandleTx \/ (\E n \in Nodes : MineAt(n))

SpecGossip == InitGossip /\ [][NextGossip]_vars

\* reliable delivery: a message in flight is eventually handled
SpecGossipFair == SpecGossip /\ WF_vars(HandleTx)

\* admission and mining alone
NextLedger == AddTx \/ MineBlock

\* the signed remittance transactions a client may submit
EscrowInputs ==
  {tx \in TxInputs : tx.tx_type \in {"OPEN_REMIT", "CLAIM_REMIT"} /\ tx.signature = SigOf(tx.sender)}

\* add_tx of a remittance transaction
AddTxEscrow ==
  /\ Admitted < MaxEscrowTx
  /\ \E tx \in EscrowInputs :
       LET r == add_tx(Node, tx)
       IN /\ Install(r.bc)
          /\ last' = [op |-> "add_tx", ret |-> r.ret]
          /\ UNCHANGED <<raised_mines, attempts, escrow, network>>

NextEscrow == AddTxEscrow \/ MineBlock

\* a node whose clients open and claim remittances
SpecEscrow == Init /\ [][NextEscrow]_vars

SpecLedger == Init /\ [][NextLedger]_vars

\* admission, mining and fork choice
NextFork == AddTx \/ MineBlock \/ ReplaceChain

SpecFork == Init /\ [][NextFork]_vars

(***************************************************************************)
(* Replay of the local chain                                               *)
(***************************************************************************)
AllAddr == Addr \cup {REWARD_SENDER}

RECURSIVE EffectTxs(_, _, _)
EffectTxs(st, txs, i) ==
  IF i > Len(txs) THEN st ELSE EffectTxs(TxEffect(st, txs[i]), txs, i + 1)

RECURSIVE ReplayBlocks(_, _, _)
ReplayBlocks(st, ch, i) ==
  IF i > Len(ch) THEN st ELSE ReplayBlocks(EffectTxs(st, ch[i].transactions, 1), ch, i + 1)

\* chain[1..] replayed in order, with the per-type effects of chain
\* validation, from the ledger the node was seeded with
Replayed == ReplayBlocks([accounts |-> InitAccounts, remits |-> NoRemits, verdict |-> "ok"], chain, 2)

(***************************************************************************)
(* Claims                                                                  *)
(***************************************************************************)

\* C1 (as claimed): no double-spend: in every state reached by add_tx and
\* mine_block from a ledger of non-negative balances, the balance of every
\* account that submits transactions is >= 0.  (The account of the reward
\* sentinel is left out: what this formula refutes is a double spend.)
C1_NoDoubleSpend == \A a \in Addr : Acct(accounts, a).balance >= 0

\* C2 (as claimed): the live balances, stakes and remits are the result of
\* replaying chain[1..] with the effects of chain validation from the seeded
\* ledger.
C2_LedgerIsReplayOfChain ==
  /\ \A a \in AllAddr :
       /\ Acct(accounts, a).balance = Acct(Replayed.accounts, a).balance
       /\ Acct(accounts, a).stake = Acct(Replayed.accounts, a).stake
  /\ remits = Replayed.remits

\* the admission conditions of the claim C3
Admissible(bc, tx) ==
  /\ tx.tx_type \in {"PAY", "STAKE", "UNSTAKE", "OPEN_REMIT", "CLAIM_REMIT"}
  /\ verify(tx)
  /\ tx.nonce = Acct(bc.accounts, tx.sender).nonce + 1
  /\ tx.tx_type \in {"PAY", "OPEN_REMIT", "STAKE"} =>
       Acct(bc.accounts, tx.sender).balance >= tx.amount + tx.fee

\* C3: add_tx returns True exactly when the type is known, the signature
\* verifies, the nonce is the sender's nonce + 1 and, for PAY, OPEN_REMIT and
\* STAKE, the balance covers amount + fee; on acceptance the transaction is
\* appended at the tail of pending, the sender's nonce grows by 1 and nothing
\* else changes.
C3_AddTxContract ==
  \A tx \in TxInputs :
    LET r == add_tx(Node, tx)
        before == Acct(accounts, tx.sender)
        after == Acct(r.bc.accounts, tx.sender)
    IN /\ r.ret = "True" <=> Admissible(Node, tx)
       /\ r.ret = "True" =>
            /\ r.bc.pending = Append(pending, tx)
            /\ after = [before EXCEPT !.nonce = @ + 1]
            /\ \A a \in AllAddr \ {tx.sender} :
                 /\ HasAcct(r.bc.accounts, a) <=> HasAcct(accounts, a)
                 /\ Acct(r.bc.accounts, a) = Acct(accounts, a)
            /\ r.bc.chain = chain
            /\ r.bc.remits = remits
            /\ r.bc.last_signed = last_signed

\* C3 witness: a transaction has been accepted and is at the tail of pending
C3_Witness ==
  /\ last = [op |-> "add_tx", ret |-> "True"]
  /\ pending # <<>>
  /\ Acct(accounts, pending[Len(pending)].sender).nonce = pending[Len(pending)].nonce
  /\ pending[Len(pending)].fee > 0

\* C4 (as claimed): a call of add_tx that returns False leaves the pending
\* queue, the chain, the remits table and the accounts table as they were,
\* no entry added.
C4_RejectionChangesNothing ==
  [][last'.op = "add_tx" /\ last'.ret = "False" =>
       UNCHANGED <<pending, chain, remits, accounts>>]_vars

\* C5: no account nonce ever decreases, across add_tx, mine_block and
\* replace_chain.
C5_NonceNeverDecreases ==
  [][\A a \in AllAddr : Acct(accounts', a).nonce >= Acct(accounts, a).nonce]_vars

\* C5 witness: replace_chain has been called on a ledger whose nonces have
\* advanced
C5_Witness ==
  /\ last.op = "replace_chain"
  /\ \E a \in Addr : Acct(accounts, a).nonce > 0
  /\ Len(chain) > 1

\* C6 (as claimed): in every state reached by add_tx and mine_block from a
\* ledger of non-negative stakes, every stake is >= 0.
C6_StakeNonNegative == \A i \in 1..Len(accounts) : accounts[i].stake >= 0

\* C7 (as claimed): replace_chain returns True when the candidate is longer
\* than the local chain and validates, and returns False otherwise: for a
\* candidate that is not longer, and for a longer one that fails validation.
C7_ReplaceChainVerdict ==
  last.op = "replace_chain" =>
  \A cand \in Candidates(Node) :
    replace_chain(Node, cand).ret =
      IF Len(cand) > Len(chain) /\ _validate_chain(Node, cand) = "True"
      THEN "True" ELSE "False"

\* C9 (as claimed): _validate_chain, is_valid_chain and validate_block
\* return a boolean and never raise.  _validate_chain is reached through its
\* two callers: is_valid_chain (the local chain) and replace_chain (a
\* candidate), which hand its outcome on unchanged.
C9_ValidationNeverRaises ==
  last.op \in {"is_valid_chain", "validate_block", "replace_chain"} => last.ret \in {"True", "False"}

\* ledgers of a second node with the same configuration
AltNodes(bc) ==
  {[bc EXCEPT !.accounts = a, !.remits = r, !.pending = <<>>] :
     a \in {<<>>,
            <<[addr |-> "A", balance |-> InitBalance, nonce |-> 0, stake |-> 1]>>,
            <<[addr |-> "B", balance |-> 0, nonce |-> 1, stake |-> 1],
              [addr |-> "A", balance |-> 1, nonce |-> 0, stake |-> 0]>>},
     r \in {NoRemits,
            [x \in {"r1"} |-> Remittance("r1", "A", "B", 1, Sha256Code("c1"))]}}

C11_PosExclusivity ==
  use_pos /\ pending # <<>> =>
    \A m \in Addr :
      LET r == mine_block(Node, m)
          v == SelectedValidator(Node, m)
      IN /\ r.ret = "Block" => m = v
         /\ m # v => r.ret = "None"

\* C12 (as claimed): a failed mining attempt is a no-op: when the pending
\* queue is empty, or in PoS mode the caller is not the selected validator,
\* mine_block raises no error, returns None, and leaves the chain, the pending
\* queue, the accounts, the remits and the last-signed table as they were.
C12_FailedMiningIsNoOp ==
  \A m \in Addr :
    LET r == mine_block(Node, m)
    IN (pending = <<>> \/ (use_pos /\ m # SelectedValidator(Node, m))) =>
         /\ r.ret = "None"
         /\ r.bc = Node

\* two attempts overlapped in time
Interleaved(t, u) == u \in attempts[t].during \/ t \in attempts[u].during

\* C14 (as claimed): when two mine_block attempts by the same selected
\* validator for the same height interleave, they never both observe the
\* height as not yet signed: once both are over, at least one of them has
\* been slashed.
C14_InterleavedAttemptsSlashed ==
  \A t \in Threads : \A u \in Threads \ {t} :
    (/\ attempts[t].pc = "done"
     /\ attempts[u].pc = "done"
     /\ Interleaved(t, u)
     /\ attempts[t].selected
     /\ attempts[u].selected
     /\ attempts[t].miner = attempts[u].miner
     /\ attempts[t].height = attempts[u].height)
    => attempts[t].slashed \/ attempts[u].slashed

\* C15: PoW correctness: in PoW mode every block mine_block has returned and
\* appended has a hash equal to compute_hash() of the block and beginning
\* with the proof-of-work prefix.
C15_PowCorrectness ==
  ~use_pos =>
    \A i \in 2..Len(chain) :
      /\ chain[i].hash = compute_hash(chain[i])
      /\ HasPowPrefix(chain[i].hash)

\* C15 witness: a block has been mined whose nonce the search had to raise
C15_Witness ==
  /\ last = [op |-> "mine_block", ret |-> "Block"]
  /\ ~use_pos
  /\ chain[Len(chain)].nonce > 0
  /\ chain[Len(chain)].transactions # <<>>

\* C16: a block returned by mine_block holds exactly the transactions that
\* were pending when the attempt started, in their order of admission,
\* followed by the reward transaction when rewards are enabled; after the
\* call the pending queue is empty and the chain is one block longer.
C16_BlockHoldsPendingInOrder ==
  [][last'.op = "mine_block" /\ last'.ret = "Block" =>
       LET blk == chain'[Len(chain')]
           n == Len(pending)
       IN /\ Len(chain') = Len(chain) + 1
          /\ SubSeq(chain', 1, Len(chain)) = chain
          /\ pending' = <<>>
          /\ Len(blk.transactions) >= n
          /\ SubSeq(blk.transactions, 1, n) = pending
          /\ IF enable_reward
             THEN Len(blk.transactions) = n + 1 /\ _is_reward_tx(blk.transactions[n + 1])
             ELSE Len(blk.transactions) = n]_vars

\* C16 witness: a block of two admitted transactions and the reward has been
\* mined
C16_Witness ==
  /\ last = [op |-> "mine_block", ret |-> "Block"]
  /\ enable_reward
  /\ pending = <<>>
  /\ Len(chain[Len(chain)].transactions) = 3
  /\ chain[Len(chain)].transactions[1].nonce = 1
  /\ chain[Len(chain)].transactions[2].nonce = 2

\* transactions that pose as reward transactions
ForgedRewards ==
  {Tx("PAY", REWARD_SENDER, r, a, 0, n, NoPayload, g) :
     r \in Addr, a \in Amounts \cup {BLOCK_REWARD}, n \in Nonces,
     g \in {REWARD_SIGNATURE, Absent, SigOf("A")}}

\* C17: every block produced by mine_block holds exactly one reward
\* transaction when rewards are enabled and none when they are disabled; the
\* recipient of the reward is the miner, its fee is 0 and its amount is
\* BLOCK_REWARD plus the fees of the non-reward transactions of the block.  No
\* transaction admitted through add_tx is recognised as a reward transaction.
C17_OneRewardPerBlock ==
  /\ \A m \in Addr :
       LET r == mine_block(Node, m)
           blk == r.bc.chain[Len(r.bc.chain)]
           rw == RewardTxs(blk.transactions, 1)
       IN r.ret = "Block" =>
            /\ Len(rw) = IF enable_reward THEN 1 ELSE 0
            /\ enable_reward =>
                 /\ rw[1].recipient = m
                 /\ rw[1].fee = 0
                 /\ rw[1].amount = BLOCK_REWARD + _total_fees(blk.transactions)
  /\ \A i \in 2..Len(chain) :
       Len(RewardTxs(chain[i].transactions, 1)) = IF enable_reward THEN 1 ELSE 0
  /\ \A i \in 1..Len(pending) : ~_is_reward_tx(pending[i])
  /\ \A tx \in TxInputs \cup ForgedRewards :
       add_tx(Node, tx).ret = "True" => ~_is_reward_tx(tx)

\* C17 witness: a block with fees has been mined with rewards enabled
C17_Witness ==
  /\ last = [op |-> "mine_block", ret |-> "Block"]
  /\ enable_reward
  /\ LET txs == chain[Len(chain)].transactions
     IN /\ Len(txs) > 1
        /\ txs[1].fee > 0
        /\ txs[Len(txs)].amount > BLOCK_REWARD

\* the OPEN_REMIT transactions of the round trip: any opener, recipient,
\* amount, fee and release code
EscrowOpens ==
  {Tx("OPEN_REMIT", s, Absent, a, f, 1,
      [id |-> i, recipient |-> r, release_hash |-> Sha256Code(c), release_code |-> Absent],
      SigOf(s)) :
     s \in Addr, r \in Addr, a \in Amounts, f \in Fees, i \in Ids, c \in Codes}

EscrowClaim(s, i, c) ==
  Tx("CLAIM_REMIT", s, Absent, 0, 0, 1,
     [id |-> i, recipient |-> Absent, release_hash |-> Absent, release_code |-> c], SigOf(s))

\* the ledger after a block holding the one transaction tx has been applied
AfterBlockOf(st, tx) == _apply_block(st.accounts, st.remits, Block(1, ZeroHash, <<tx>>))

\* C18: escrow round trip: from any reachable ledger, a mined OPEN_REMIT of
\* amount a and fee f with release_hash = SHA256(code) followed by a mined
\* CLAIM_REMIT carrying code debits the opener by a + f, credits the recipient
\* named in the contract by exactly a and sets released; a later CLAIM_REMIT
\* for the same id, with the same or another code, changes no balance and no
\* contract.
C18_EscrowRoundTrip ==
  \A open \in EscrowOpens : \A claimer \in Addr : \A code \in Codes :
    LET rid == open.payload.id
        st0 == [accounts |-> accounts, remits |-> remits, raised |-> FALSE]
        st1 == AfterBlockOf(st0, open)
        st2 == AfterBlockOf(st1, EscrowClaim(claimer, rid, code))
        bal(st, x) == Acct(st.accounts, x).balance
    IN open.payload.release_hash = Sha256Code(code) =>
         /\ ~st1.raised /\ ~st2.raised
         /\ \A x \in AllAddr :
              bal(st2, x) = bal(st0, x)
                            - (IF x = open.sender THEN open.amount + open.fee ELSE 0)
                            + (IF x = open.payload.recipient THEN open.amount ELSE 0)
         /\ rid \in DOMAIN st2.remits
         /\ st2.remits[rid].released
         /\ st2.remits[rid].recipient = open.payload.recipient
         /\ \A again \in Addr : \A other \in Codes :
              LET st3 == AfterBlockOf(st2, EscrowClaim(again, rid, other))
              IN /\ ~st3.raised
                 /\ st3.remits = st2.remits
                 /\ \A x \in AllAddr : bal(st3, x) = bal(st2, x)

\* C18 witness: an escrow has been opened and claimed through add_tx and
\* mine_block, and its recipient has been paid
C18_Witness ==
  /\ last = [op |-> "mine_block", ret |-> "Block"]
  /\ Len(chain) = 3
  /\ "r1" \in DOMAIN remits
  /\ remits["r1"].released
  /\ Acct(accounts, remits["r1"].recipient).balance >= remits["r1"].amount
  /\ Acct(accounts, remits["r1"].sender).balance < InitBalance

\* C19 (as claimed): a remittance is irreversible and permanent: across
\* add_tx, mine_block and replace_chain an entry of the remits table is never
\* removed, never goes back from released to unreleased and is never replaced
\* by a different contract with the same id.
C19_RemittancePermanent ==
  [][\A rid \in DOMAIN remits :
       /\ rid \in DOMAIN remits'
       /\ remits[rid].released => remits'[rid].released
       /\ [remits'[rid] EXCEPT !.released = remits[rid].released] = remits[rid]]_vars

\* every transaction of the queue is a STAKE or an UNSTAKE with fee 0
StakeOnly(txs) ==
  \A i \in 1..Len(txs) : txs[i].tx_type \in {"STAKE", "UNSTAKE"} /\ txs[i].fee = 0

\* C20 (as claimed): staking conserves the sender's funds: a mined STAKE of
\* amount a turns balance b and stake s into b - a and s + a, and a block of
\* STAKE and UNSTAKE transactions with fee 0 leaves balance + stake of every
\* account unchanged.
C20_StakingConservesFunds ==
  [][(/\ last'.op = "mine_block"
      /\ last'.ret = "Block"
      /\ ~enable_reward
      /\ StakeOnly(pending)) =>
       /\ \A a \in Addr :
            Acct(accounts', a).balance + Acct(accounts', a).stake
              = Acct(accounts, a).balance + Acct(accounts, a).stake
       /\ (Len(pending) = 1 /\ pending[1].tx_type = "STAKE") =>
            /\ Acct(accounts', pending[1].sender).stake
                 = Acct(accounts, pending[1].sender).stake + pending[1].amount
            /\ Acct(accounts', pending[1].sender).balance
                 = Acct(accounts, pending[1].sender).balance - pending[1].amount]_vars

\* C21 (as claimed): applying a block's reward transaction debits no account:
\* the balance of the reward sentinel is unchanged by a mined block; and a
\* mined block of one PAY and no reward debits the sender amount + fee and
\* credits the recipient amount.
C21_RewardDebitsNoAccount ==
  [][(last'.op = "mine_block" /\ last'.ret = "Block") =>
       /\ Acct(accounts', REWARD_SENDER).balance = Acct(accounts, REWARD_SENDER).balance
       /\ (~enable_reward /\ Len(pending) = 1 /\ pending[1].tx_type = "PAY") =>
            \A x \in Addr :
              Acct(accounts', x).balance
                = Acct(accounts, x).balance
                  - (IF x = pending[1].sender THEN pending[1].amount + pending[1].fee ELSE 0)
                  + (IF x = pending[1].recipient THEN pending[1].amount ELSE 0)]_vars

\* C22: chain well-formedness: after any sequence of mine_block and
\* replace_chain calls the local chain is non-empty, chain[0] has index 0 and
\* previous_hash "0", and every later block names the hash of its predecessor
\* and has its predecessor's index + 1.
C22_ChainWellFormed ==
  /\ chain # <<>>
  /\ chain[1].index = 0
  /\ chain[1].previous_hash = ZeroHash
  /\ \A i \in 2..Len(chain) :
       /\ chain[i].previous_hash = chain[i - 1].hash
       /\ chain[i].index = chain[i - 1].index + 1

\* C22 witness: two blocks have been mined and replace_chain has been called
C22_Witness ==
  /\ last.op = "replace_chain"
  /\ Len(chain) = MaxChain
  /\ chain[Len(chain)].transactions # <<>>

\* C23 (as claimed): no partial-block visibility: a mining attempt that
\* returns no block leaves no effect in the ledger: balances, stakes, remits,
\* chain and pending queue are as before the attempt.
C23_NoPartialBlock ==
  [][(last'.op = "mine_block" /\ last'.ret # "Block") =>
       /\ \A x \in AllAddr :
            /\ Acct(accounts', x).balance = Acct(accounts, x).balance
            /\ Acct(accounts', x).stake = Acct(accounts, x).stake
       /\ UNCHANGED <<remits, chain, pending>>]_vars

\* C24 (as claimed): merkle_root([]) is the hash of the empty string, and for
\* the hash h of any admitted transaction merkle_root([h]) is the hash of h
\* concatenated with itself.
C24_MerkleRootSmallInputs ==
  /\ merkle_root(<<>>) = Sha256(<<>>)
  /\ \A i \in 1..Len(pending) :
       LET h == TxHash(pending[i])
       IN merkle_root(<<h>>) = Sha256(h \o h)

\* C25 (as claimed): in PoS mode, on a ledger with no staker, an address
\* whose only stake is its own STAKE transaction in the pending queue is the
\* validator selected for the round that mines it, and its mine_block call
\* returns a block.
C25_PendingStakeCounts ==
  (/\ use_pos
   /\ Len(pending) = 1
   /\ pending[1].tx_type = "STAKE"
   /\ \A i \in 1..Len(accounts) : accounts[i].stake = 0) =>
    LET m == pending[1].sender
    IN /\ SelectedValidator(Node, m) = m
       /\ mine_block(Node, m).ret = "Block"

\* C27 (as claimed): _validate_chain returns False for every candidate chain
\* in which some block past genesis does not have its predecessor's index + 1,
\* chains with consistent linkage, proof of work and hashes included.
C27_IndexSequencingChecked ==
  last.op = "replace_chain" =>
    \A cand \in Candidates(Node) :
      (\E i \in 2..Len(cand) : cand[i].index # cand[i - 1].index + 1) =>
        _validate_chain(Node, cand) = "False"

RECURSIVE CountBy(_, _, _)
CountBy(a, txs, i) ==
  IF i > Len(txs) THEN 0
  ELSE (IF txs[i].sender = a /\ ~_is_reward_tx(txs[i]) THEN 1 ELSE 0) + CountBy(a, txs, i + 1)

RECURSIVE CountOnChain(_, _, _)
CountOnChain(a, ch, i) ==
  IF i > Len(ch) THEN 0 ELSE CountBy(a, ch[i].transactions, 1) + CountOnChain(a, ch, i + 1)

\* C28 (as claimed): no accepted transaction is lost when admission and
\* mining overlap: whenever no mining attempt is in progress, every
\* transaction add_tx has accepted (the sender's nonce counts them) is in a
\* block of the chain or still in the pending queue.
C28_NoAcceptedTxLost ==
  InProgress = {} =>
    \A a \in Addr :
      Acct(accounts, a).nonce = CountOnChain(a, chain, 1) + CountBy(a, pending, 1)

\* C29: a block received from a peer is appended only if validate_block
\* accepts it on the current tip, and a received block that is not appended
\* leaves the ledger as it was
C29_ReceivedBlockValidated ==
  [][last'.op = "handle_block" =>
       IF Len(chain') > Len(chain)
       THEN validate_block(Node, chain'[Len(chain')], chain[Len(chain)]) = "True"
       ELSE accounts' = accounts /\ remits' = remits]_vars

\* the transactions of the chain's blocks that are not block rewards
RECURSIVE ChainPayload(_, _)
ChainPayload(ch, i) ==
  IF i > Len(ch) THEN <<>>
  ELSE SelectSeq(ch[i].transactions, LAMBDA tx : ~_is_reward_tx(tx)) \o ChainPayload(ch, i + 1)

\* C30: no transaction is applied to the node's ledger twice: a transaction
\* occurs at most once in the blocks the node applied and appended
C30_TxAppliedAtMostOnce ==
  LET txs == ChainPayload(chain, 1)
  IN \A i, j \in 1..Len(txs) : txs[i] = txs[j] => i = j

\* the fee _apply_block takes from the sender of tx: what the sender's
\* balance loses beyond what the same transaction with fee 0 takes
FeeDebited(st, tx) ==
  Acct(ApplyTx(st, [tx EXCEPT !.fee = 0]).accounts, tx.sender).balance
    - Acct(ApplyTx(st, tx).accounts, tx.sender).balance

\* the fees _apply_block takes from the senders of txs, applied in order
RECURSIVE FeesDebited(_, _, _)
FeesDebited(st, txs, i) ==
  IF i > Len(txs) \/ st.raised THEN 0
  ELSE (IF _is_reward_tx(txs[i]) THEN 0 ELSE FeeDebited(st, txs[i]))
       + FeesDebited(ApplyTx(st, txs[i]), txs, i + 1)

\* C31 (as claimed): fee conservation: with rewards enabled, the fee part of
\* the reward of a mined block (reward amount - BLOCK_REWARD) equals the total
\* of the fees debited from the senders of the block's transactions.
C31_FeeConservation ==
  [][(last'.op = "mine_block" /\ last'.ret = "Block" /\ enable_reward) =>
       LET txs == chain'[Len(chain')].transactions
           st == [accounts |-> accounts, remits |-> remits, raised |-> FALSE]
       IN txs[Len(txs)].amount - BLOCK_REWARD = FeesDebited(st, txs, 1)]_vars

\* C32: escrow solvency: for every remittance id, the total credited to
\* recipients by CLAIM_REMIT transactions never exceeds the total debited from
\* senders by OPEN_REMIT transactions
C32_EscrowSolvency ==
  \A i \in Ids : escrow[i].credited <= escrow[i].debited

\* C32 witness: a remittance has been opened and claimed by mined
\* transactions, and the recipient was credited what the opener was debited
C32_Witness ==
  /\ last = [op |-> "mine_block", ret |-> "Block"]
  /\ CountAdmitted(chain, 1) = MaxEscrowTx
  /\ \E i \in Ids : escrow[i].credited > 0 /\ escrow[i].credited = escrow[i].debited

\* C33 (as claimed): stake-proportional selection: for a stake table with
\* positive total stake T, the number of residues r in 0..T-1 for which
\* _select_pos_validator returns an address equals that address's stake, so
\* only addresses with positive stake are returned and each of them is
\* returned for some seed.
C33_StakeProportionalSelection ==
  LET T == TotalStake(StakeEntries(accounts, 1), 1)
  IN T > 0 =>
       \A i \in 1..Len(accounts) :
         Cardinality({r \in 0..(T - 1) :
                        _select_pos_validator(Node, r, accounts) = accounts[i].addr})
           = (IF accounts[i].stake > 0 THEN accounts[i].stake ELSE 0)

====
